---- MODULE Spec2Model ----
(***************************************************************************)
(* DHCP option parsing, lookup and numeric decoding (src/net/dhcpopts.c).  *)
(*                                                                         *)
(* The state is the heap of option blocks, the list of registered blocks,  *)
(* and the call frames of find_dhcp_option, find_dhcp_option_raw and       *)
(* dhcp_num_option.  The raw scanner is modelled one loop iteration per    *)
(* step so that every byte it reads and every iteration it makes is        *)
(* visible; the program is single-threaded, so no other operation starts   *)
(* while a search is in progress (pc # "idle").                            *)
(***************************************************************************)
EXTENDS Integers, Sequences, FiniteSets, TLC

VARIABLES
    heap,           \* block address -> [live, len, data] (struct dhcp_option_block)
    fresh,          \* block address -> capacity it was allocated with, while untouched
    allocFailed,    \* the last operation was an alloc_dhcp_options that returned NULL
    option_blocks,  \* the list of registered blocks, head first
    registered,     \* history: the blocks the callers registered, most recent first
    pc,             \* position of the (single) thread of control
    ftag,           \* find_dhcp_option: the tag argument
    cursor,         \* find_dhcp_option: list position of `options'
    scanned,        \* find_dhcp_option: the blocks handed to the raw scanner so far
    findRet,        \* find_dhcp_option: the returned option
    tag,            \* find_dhcp_option_raw: tag of the innermost call
    data,           \* find_dhcp_option_raw: the bytes at `data' of the outermost call
    len,            \* find_dhcp_option_raw: `len' of the outermost call
    option,         \* find_dhcp_option_raw: offset of `option' from the outermost `data'
    remaining,      \* find_dhcp_option_raw: the signed `remaining' counter
    depth,          \* find_dhcp_option_raw: nesting of the innermost call (0 = outermost)
    encLen,         \* find_dhcp_option_raw: `len' of the nested call
    reads,          \* history: offsets (from the outermost `data') the scan has read
    iters,          \* history: loop bodies entered, <<outermost call, nested call>>
    ret,            \* find_dhcp_option_raw: the returned option (offset) or NULL
    numOption,      \* dhcp_num_option: the option argument (offset into data) or NULL
    value,          \* dhcp_num_option: the returned value
    numReads        \* history: offsets dereferenced through `data' by dhcp_num_option

vars == <<heap, fresh, allocFailed, option_blocks, registered, pc, ftag, cursor,
          scanned, findRet, tag, data, len, option, remaining, depth, encLen,
          reads, iters, ret, numOption, value, numReads>>

heapVars == <<heap, fresh, allocFailed>>
listVars == <<option_blocks, registered>>
findVars == <<ftag, cursor, scanned, findRet>>
rawVars  == <<tag, data, len, option, remaining, depth, encLen, reads, iters, ret>>
numVars  == <<numOption, value, numReads>>

(***************************************************************************)
(* Bounds of the model.                                                    *)
(***************************************************************************)
MaxLen    == 6   \* longest caller-supplied buffer in the single-block specification
MaxCap    == 2   \* largest capacity passed to alloc_dhcp_options
NBlocks   == 2   \* block addresses in the registry specification
LongBytes == 2   \* sizeof ( unsigned long ) of the modelled build

(***************************************************************************)
(* Constants of <gpxe/dhcp.h>.                                             *)
(***************************************************************************)
DHCP_PAD == 0
DHCP_END == 255
NULL == -1

DHCP_ENCAP_OPT(encapsulator, encapsulated) == encapsulator * 256 + encapsulated
DHCP_ENCAPSULATOR(encap_opt) == encap_opt \div 256
DHCP_ENCAPSULATED(encap_opt) == encap_opt % 256

(***************************************************************************)
(* Input domains.  A byte is PAD, END, or one of two ordinary values that  *)
(* serve both as tags and as length bytes.                                 *)
(***************************************************************************)
Byte == {DHCP_PAD, 1, 2, DHCP_END}
PlainTags == {1, 2}
EncapTags == {DHCP_ENCAP_OPT(e, s) : e \in PlainTags, s \in PlainTags}
Tags == PlainTags \cup EncapTags

BytesOfLen(n) == [1..n -> Byte]
AllBufs == UNION {BytesOfLen(n) : n \in 0..MaxLen}

\* Option blocks the callers of the registry specification supply.
Contents ==
    { <<1, 0>>,             \* tag 1, empty
      <<2, 0>>,             \* tag 2, empty: encapsulator without sub-tag
      <<2, 2, 1, 0>>,       \* tag 2 encapsulating tag 1
      <<0, 0, 1, 1>>,       \* two PADs, then tag 1 truncated by the block end
      <<255, 1, 0>> }       \* END, then tag 1

\* Tags searched for in the registry specification.
RegTags == {1, DHCP_ENCAP_OPT(2, 1)}

Block == 1..NBlocks
OneBlock == {1}

NotFound == [block |-> 0, off |-> NULL]
DeadBlock == [live |-> FALSE, len |-> 0, data |-> <<>>]

Range(s) == {s[i] : i \in 1..Len(s)}


(***************************************************************************)
(* Initial state: no block exists, nothing is registered, no call is in    *)
(* progress.                                                               *)
(***************************************************************************)
IdleFind == /\ ftag' = 0 /\ cursor' = 0 /\ scanned' = <<>> /\ findRet' = NotFound

IdleRaw ==
    /\ tag' = 0 /\ data' = <<>> /\ len' = 0 /\ option' = 0 /\ remaining' = 0
    /\ depth' = 0 /\ encLen' = 0 /\ reads' = {} /\ iters' = <<0, 0>> /\ ret' = NULL

IdleNum == /\ numOption' = NULL /\ value' = 0 /\ numReads' = {}

Init ==
    /\ heap = [b \in Block |-> DeadBlock]
    /\ fresh = [b \in Block |-> NULL]
    /\ allocFailed = FALSE
    /\ option_blocks = <<>>
    /\ registered = <<>>
    /\ pc = "idle"
    /\ ftag = 0 /\ cursor = 0 /\ scanned = <<>> /\ findRet = NotFound
    /\ tag = 0 /\ data = <<>> /\ len = 0 /\ option = 0 /\ remaining = 0
    /\ depth = 0 /\ encLen = 0 /\ reads = {} /\ iters = <<0, 0>> /\ ret = NULL
    /\ numOption = NULL /\ value = 0 /\ numReads = {}

(***************************************************************************)
(* dhcp_option_len: the length of an option including tag and length       *)
(* field.  tagByte and lenByte are the bytes at option->tag and            *)
(* option->len; the latter is read only in the second branch.              *)
(***************************************************************************)
dhcp_option_len_short(tagByte, lenByte) ==
    IF (tagByte = DHCP_END) \/ (tagByte = DHCP_PAD) THEN 1 ELSE lenByte + 1

dhcp_option_len_padless(tagByte, lenByte) ==
    IF tagByte = DHCP_END THEN 1 ELSE IF tagByte = DHCP_PAD THEN 0 ELSE lenByte + 2

dhcp_option_len(tagByte, lenByte) ==
    IF (tagByte = DHCP_END) \/ (tagByte = DHCP_PAD) THEN 1 ELSE lenByte + 2

\* The bytes dhcp_option_len reads, as offsets from the option.
dhcp_option_len_reads(tagByte) ==
    IF (tagByte = DHCP_END) \/ (tagByte = DHCP_PAD) THEN {0} ELSE {0, 1}

(***************************************************************************)
(* find_dhcp_option_raw.                                                   *)
(*                                                                         *)
(* ReadByte is a load from data + off.  Inside [0, len) it yields the      *)
(* buffer's byte; outside it is a read of memory the caller did not hand   *)
(* over, whose value is whatever lies there (oob, chosen by the step).     *)
(***************************************************************************)
ReadByte(off, oob) == IF off >= 0 /\ off < len THEN data[off + 1] ELSE oob

\* "if ( remaining < 0 ) break;"
LengthMalformed_lax(rem) == rem < -1

LengthMalformed(rem) == rem < 0

\* "DHCP_ENCAPSULATOR ( tag ) && ( option->tag == DHCP_ENCAPSULATOR ( tag ) )"
EncapsulationStart(t, tagByte) ==
    (DHCP_ENCAPSULATOR(t) # 0) /\ (tagByte = DHCP_ENCAPSULATOR(t))

\* The arguments of the recursive call: tag, data (as an offset) and len.
EncapsulatedCall_whole(t, opt, lenByte) ==
    [tag |-> DHCP_ENCAPSULATED(t), data |-> opt, len |-> lenByte + 2]

EncapsulatedCall(t, opt, lenByte) ==
    [tag |-> DHCP_ENCAPSULATED(t), data |-> opt + 2, len |-> lenByte]

\* "return ...": the frame is left as it is for the caller to inspect.
RawReturn(result, rd, it) ==
    /\ ret' = result
    /\ reads' = rd
    /\ iters' = it
    /\ pc' = "rawret"
    /\ UNCHANGED <<tag, data, len, option, remaining, depth, encLen>>

\* The entry of find_dhcp_option_raw ( t, d, l ).
RawCall(t, d, l) ==
    /\ tag' = t /\ data' = d /\ len' = l
    /\ option' = 0
    /\ remaining' = l
    /\ depth' = 0 /\ encLen' = 0
    /\ reads' = {} /\ iters' = <<0, 0>>
    /\ ret' = NULL
    /\ pc' = "raw"

\* One evaluation of the loop condition and, if it holds, of the loop body.
find_dhcp_option_raw ==
    /\ pc = "raw"
    /\ \E oob \in Byte :
        LET tagByte    == ReadByte(option, oob)
            lenByte    == ReadByte(option + 1, oob)
            option_len == dhcp_option_len(tagByte, lenByte)
            rem        == remaining - option_len
            entered    == [iters EXCEPT ![depth + 1] = @ + 1]
            rdTag      == reads \cup {option}
            rdLen      == reads \cup {option + o : o \in dhcp_option_len_reads(tagByte)}
            call       == EncapsulatedCall(tag, option, lenByte)
        IN  IF remaining = 0
            THEN RawReturn(NULL, reads, iters)
            ELSE IF tagByte = DHCP_END
            THEN RawReturn(NULL, rdTag, entered)
            ELSE IF LengthMalformed(rem)
            THEN /\ ret' = NULL /\ reads' = rdLen /\ iters' = entered
                 /\ remaining' = rem
                 /\ pc' = "rawret"
                 /\ UNCHANGED <<tag, data, len, option, depth, encLen>>
            ELSE IF tagByte = tag
            THEN /\ ret' = option /\ reads' = rdLen /\ iters' = entered
                 /\ remaining' = rem
                 /\ pc' = "rawret"
                 /\ UNCHANGED <<tag, data, len, option, depth, encLen>>
            ELSE IF EncapsulationStart(tag, tagByte)
            THEN /\ tag' = call.tag
                 /\ option' = call.data
                 /\ remaining' = call.len
                 /\ encLen' = call.len
                 /\ depth' = depth + 1
                 /\ reads' = rdLen /\ iters' = entered
                 /\ UNCHANGED <<data, len, ret, pc>>
            ELSE /\ option' = option + option_len
                 /\ remaining' = rem
                 /\ reads' = rdLen /\ iters' = entered
                 /\ UNCHANGED <<tag, data, len, depth, encLen, ret, pc>>
    /\ UNCHANGED <<heapVars, listVars, findVars, numVars>>

(***************************************************************************)
(* The list of registered blocks (<gpxe/list.h>).  list_add inserts the    *)
(* entry right after the head; list_del unlinks it.  Both are defined only *)
(* under the list discipline: an entry is added when it is not on the list *)
(* and deleted when it is.                                                 *)
(***************************************************************************)
list_add(entry, list) == <<entry>> \o list

list_del(entry, list) == SelectSeq(list, LAMBDA e : e # entry)

(***************************************************************************)
(* find_dhcp_option.                                                       *)
(***************************************************************************)
\* Entry: "list_for_each_entry ( options, &option_blocks, list )" starts at the head.
find_dhcp_option(t) ==
    /\ pc = "idle"
    /\ pc' = "find"
    /\ ftag' = t
    /\ cursor' = 1
    /\ scanned' = <<>>
    /\ findRet' = NotFound
    /\ allocFailed' = FALSE
    /\ UNCHANGED <<heap, fresh, listVars, rawVars, numVars>>

\* The loop condition and the call of find_dhcp_option_raw on the next block.
\* A block that was freed while registered is read through a dangling
\* pointer: its data and len are whatever the memory holds now (stale).
find_dhcp_option_next(stale) ==
    /\ pc = "find"
    /\ IF cursor > Len(option_blocks)
       THEN /\ findRet' = NotFound
            /\ pc' = "findret"
            /\ UNCHANGED <<scanned, rawVars>>
       ELSE LET options == option_blocks[cursor] IN
            /\ scanned' = Append(scanned, options)
            /\ findRet' = findRet
            /\ IF heap[options].live
               THEN RawCall(ftag, heap[options].data, heap[options].len)
               ELSE \E d \in stale : RawCall(ftag, d, Len(d))
    /\ UNCHANGED <<heapVars, listVars, ftag, cursor, numVars>>

\* "if ( ( option = find_dhcp_option_raw ( ... ) ) ) return option;"
find_dhcp_option_check ==
    /\ pc = "rawret"
    /\ IF ret # NULL
       THEN /\ findRet' = [block |-> option_blocks[cursor], off |-> ret]
            /\ pc' = "findret"
            /\ UNCHANGED cursor
       ELSE /\ cursor' = cursor + 1
            /\ pc' = "find"
            /\ UNCHANGED findRet
    /\ UNCHANGED <<heapVars, listVars, ftag, scanned, rawVars, numVars>>

\* The caller takes the result; the frames are gone.
find_dhcp_option_return ==
    /\ pc = "findret"
    /\ pc' = "idle"
    /\ IdleFind
    /\ IdleRaw
    /\ UNCHANGED <<heapVars, listVars, numVars>>

(***************************************************************************)
(* register_dhcp_options, unregister_dhcp_options.  The guards are the     *)
(* list discipline the callers must keep: list_add of an entry already on  *)
(* the list, or list_del of one that is not, is not defined.               *)
(***************************************************************************)
register_dhcp_options_tail(options) ==
    /\ pc = "idle"
    /\ heap[options].live
    /\ options \notin Range(option_blocks)
    /\ option_blocks' = Append(option_blocks, options)
    /\ registered' = <<options>> \o SelectSeq(registered, LAMBDA e : e # options)
    /\ allocFailed' = FALSE
    /\ UNCHANGED <<heap, fresh, pc, findVars, rawVars, numVars>>

register_dhcp_options(options) ==
    /\ pc = "idle"
    /\ heap[options].live
    /\ options \notin Range(option_blocks)
    /\ option_blocks' = list_add(options, option_blocks)
    /\ registered' = <<options>> \o SelectSeq(registered, LAMBDA e : e # options)
    /\ allocFailed' = FALSE
    /\ UNCHANGED <<heap, fresh, pc, findVars, rawVars, numVars>>

unregister_dhcp_options_none(options) ==
    /\ pc = "idle"
    /\ heap[options].live
    /\ options \in Range(option_blocks)
    /\ option_blocks' = option_blocks
    /\ registered' = SelectSeq(registered, LAMBDA e : e # options)
    /\ allocFailed' = FALSE
    /\ UNCHANGED <<heap, fresh, pc, findVars, rawVars, numVars>>

unregister_dhcp_options(options) ==
    /\ pc = "idle"
    /\ heap[options].live
    /\ options \in Range(option_blocks)
    /\ option_blocks' = list_del(options, option_blocks)
    /\ registered' = SelectSeq(registered, LAMBDA e : e # options)
    /\ allocFailed' = FALSE
    /\ UNCHANGED <<heap, fresh, pc, findVars, rawVars, numVars>>

(***************************************************************************)
(* alloc_dhcp_options, free_dhcp_options.  malloc either fails or returns  *)
(* memory at an address that is not in use (options), holding arbitrary    *)
(* bytes (junk).                                                           *)
(***************************************************************************)
\* The data bytes of the new block: "if ( len ) { option->tag = DHCP_END; }".
alloc_init_from2(l, junk) == IF l > 1 THEN [junk EXCEPT ![1] = DHCP_END] ELSE junk

alloc_init(l, junk) == IF l # 0 THEN [junk EXCEPT ![1] = DHCP_END] ELSE junk

alloc_dhcp_options(options, l, junk) ==
    /\ pc = "idle"
    /\ ~heap[options].live
    /\ Len(junk) = l
    /\ \/ /\ allocFailed' = TRUE      \* malloc returned NULL
          /\ UNCHANGED <<heap, fresh>>
       \/ /\ allocFailed' = FALSE
          /\ heap' = [heap EXCEPT ![options] =
                         [live |-> TRUE, len |-> l, data |-> alloc_init(l, junk)]]
          /\ fresh' = [fresh EXCEPT ![options] = l]
    /\ UNCHANGED <<listVars, pc, findVars, rawVars, numVars>>

free_dhcp_options_unlink(options) ==
    /\ pc = "idle"
    /\ heap[options].live
    /\ heap' = [heap EXCEPT ![options] = DeadBlock]
    /\ fresh' = [fresh EXCEPT ![options] = NULL]
    /\ allocFailed' = FALSE
    /\ option_blocks' = list_del(options, option_blocks)
    /\ UNCHANGED <<registered, pc, findVars, rawVars, numVars>>

free_dhcp_options(options) ==
    /\ pc = "idle"
    /\ heap[options].live
    /\ heap' = [heap EXCEPT ![options] = DeadBlock]
    /\ fresh' = [fresh EXCEPT ![options] = NULL]
    /\ allocFailed' = FALSE
    /\ UNCHANGED <<listVars, pc, findVars, rawVars, numVars>>

\* A caller brings a block of its own, filled with option data d, into
\* existence at an unused address (the code that builds option blocks is
\* outside this file).
CallerBlock(options, d) ==
    /\ pc = "idle"
    /\ ~heap[options].live
    /\ heap' = [heap EXCEPT ![options] = [live |-> TRUE, len |-> Len(d), data |-> d]]
    /\ fresh' = [fresh EXCEPT ![options] = NULL]
    /\ allocFailed' = FALSE
    /\ UNCHANGED <<listVars, pc, findVars, rawVars, numVars>>

(***************************************************************************)
(* dhcp_num_option.  unsigned long is LongBytes bytes wide: the shift      *)
(* drops the top byte of value, and the or fills the byte shifted in.      *)
(***************************************************************************)
\* "value = ( ( value << 8 ) | *data )"
ShiftOr_noshift(v, byte) == byte

ShiftOr(v, byte) == ((v % (256 ^ (LongBytes - 1))) * 256) + byte

\* "for ( data = option->data.bytes ; data < ( option->data.bytes + option->len ) ; data++ )"
RECURSIVE NumLoop(_, _, _, _)
NumLoop(v, p, end, rd) ==
    IF p < end
    THEN NumLoop(ShiftOr(v, data[p + 1]), p + 1, end, rd \cup {p})
    ELSE [value |-> v, reads |-> rd]

dhcp_num_option ==
    /\ pc = "num"
    /\ LET r == IF numOption # NULL
                THEN NumLoop(0, numOption + 2, numOption + 2 + data[numOption + 2], {})
                ELSE [value |-> 0, reads |-> {}]
       IN  /\ value' = r.value
           /\ numReads' = r.reads
    /\ pc' = "numret"
    /\ UNCHANGED <<heapVars, listVars, findVars, numOption,
                   tag, data, len, option, remaining, depth, encLen, reads, iters, ret>>

\* A caller passes the option at offset opt of the memory d, or NULL.
NumCall(d, opt) ==
    /\ pc = "idle"
    /\ pc' = "num"
    /\ data' = d
    /\ len' = Len(d)
    /\ numOption' = opt
    /\ value' = 0
    /\ numReads' = {}
    /\ UNCHANGED <<heapVars, listVars, findVars,
                   tag, option, remaining, depth, encLen, reads, iters, ret>>

NumReturn ==
    /\ pc = "numret"
    /\ pc' = "idle"
    /\ IdleNum
    /\ IdleRaw
    /\ UNCHANGED <<heapVars, listVars, findVars>>

\* The options handed to dhcp_num_option: tag 1, a payload of up to
\* LongBytes + 1 bytes, one more byte behind it; at offset 0 or behind a PAD.
NumPayloads == UNION {BytesOfLen(n) : n \in 0..(LongBytes + 1)}
NumOptionAt(opt, payload) ==
    [i \in 1..opt |-> DHCP_PAD] \o <<1, Len(payload)>> \o payload \o <<1>>

(***************************************************************************)
(* Specifications.                                                         *)
(*                                                                         *)
(* Spec: the registry with NBlocks block addresses; callers supply the     *)
(* blocks of Contents and allocate empty ones, and search for RegTags.     *)
(* SpecScan: one block address, holding any buffer up to MaxLen bytes,     *)
(* searched for any tag.  SpecNum: dhcp_num_option on its own.             *)
(***************************************************************************)
Next ==
    \/ pc = "idle" /\ \E b \in Block : \E d \in Contents : CallerBlock(b, d)
    \/ pc = "idle" /\ \E b \in Block : \E l \in 0..MaxCap :
          alloc_dhcp_options(b, l, [i \in 1..l |-> 1])
    \/ \E b \in Block : free_dhcp_options(b)
    \/ \E b \in Block : register_dhcp_options(b)
    \/ \E b \in Block : unregister_dhcp_options(b)
    \/ \E t \in RegTags : find_dhcp_option(t)
    \/ find_dhcp_option_next(Contents)
    \/ find_dhcp_option_raw
    \/ find_dhcp_option_check
    \/ find_dhcp_option_return

Spec == Init /\ [][Next]_vars

\* A call, once made, runs on: the steps inside find_dhcp_option are taken.
FairSpec ==
    /\ Spec
    /\ WF_vars(find_dhcp_option_next(Contents))
    /\ WF_vars(find_dhcp_option_raw)
    /\ WF_vars(find_dhcp_option_check)

NextScan ==
    \/ pc = "idle" /\ \E b \in OneBlock : ~heap[b].live /\ \E d \in AllBufs : CallerBlock(b, d)
    \/ pc = "idle" /\ \E b \in OneBlock : \E l \in 0..MaxCap : \E junk \in BytesOfLen(l) :
          alloc_dhcp_options(b, l, junk)
    \/ \E b \in OneBlock : free_dhcp_options(b)
    \/ \E b \in OneBlock : register_dhcp_options(b)
    \/ \E b \in OneBlock : unregister_dhcp_options(b)
    \/ \E t \in Tags : find_dhcp_option(t)
    \/ find_dhcp_option_next(Contents)
    \/ find_dhcp_option_raw
    \/ find_dhcp_option_check
    \/ find_dhcp_option_return

SpecScan == Init /\ [][NextScan]_vars

NextNum ==
    \/ \E opt \in {0, 1} : \E payload \in NumPayloads : NumCall(NumOptionAt(opt, payload), opt)
    \/ NumCall(<<>>, NULL)
    \/ dhcp_num_option
    \/ NumReturn

SpecNum == Init /\ [][NextNum]_vars

(***************************************************************************)
(* The option format, stated on its own: the records of a buffer, read     *)
(* from offset 0 by the encoding rules alone (PAD and END are one byte,    *)
(* any other record is tag, length byte, payload).                         *)
(***************************************************************************)
IsSentinel(byte) == byte \in {DHCP_PAD, DHCP_END}

\* The on-wire size of the record at offset p; its length byte is inside buf.
RecordSize(buf, p) == IF IsSentinel(buf[p + 1]) THEN 1 ELSE 2 + buf[p + 2]

\* The record at offset p lies wholly inside buf.
RecordInside(buf, p) ==
    /\ p < Len(buf)
    /\ \/ IsSentinel(buf[p + 1])
       \/ (p + 1 < Len(buf) /\ p + 2 + buf[p + 2] <= Len(buf))

\* The offsets of the records from p on, up to the first END, the first
\* record that does not lie inside buf, or the end of buf.
RECURSIVE WalkFrom(_, _)
WalkFrom(buf, p) ==
    IF p >= Len(buf) \/ buf[p + 1] = DHCP_END \/ ~RecordInside(buf, p)
    THEN <<>>
    ELSE <<p>> \o WalkFrom(buf, p + RecordSize(buf, p))

Walk(buf) == WalkFrom(buf, 0)

\* Where the walk stopped.
WalkEnd(buf) ==
    LET w == Walk(buf)
    IN  IF w = <<>> THEN 0 ELSE w[Len(w)] + RecordSize(buf, w[Len(w)])

\* The walk stopped at a record that runs over the end of buf: the record
\* lengths up to the first END add up to more than the declared length.
Overrun(buf) == WalkEnd(buf) < Len(buf) /\ buf[WalkEnd(buf) + 1] # DHCP_END

WellFormed(buf) == ~Overrun(buf)

\* The first walked record with tag t, or NULL.
FirstWith(t, buf) ==
    LET hits == {i \in 1..Len(Walk(buf)) : buf[Walk(buf)[i] + 1] = t}
    IN  IF hits = {} THEN NULL
        ELSE Walk(buf)[CHOOSE i \in hits : \A j \in hits : i <= j]

PayloadAt(buf, p) == SubSeq(buf, p + 3, p + 2 + buf[p + 2])

\* The option a search of buf for t is to yield: the first record with a
\* plain tag t; for a composite tag, the first record with the sub-tag in
\* the payload of the first record with the encapsulator.
Expected(t, buf) ==
    IF DHCP_ENCAPSULATOR(t) = 0
    THEN FirstWith(t, buf)
    ELSE LET e == FirstWith(DHCP_ENCAPSULATOR(t), buf)
         IN  IF e = NULL THEN NULL
             ELSE LET r == FirstWith(DHCP_ENCAPSULATED(t), PayloadAt(buf, e))
                  IN  IF r = NULL THEN NULL ELSE e + 2 + r

\* The block find_dhcp_option_raw is scanning (or has just scanned).
Scanning == scanned[Len(scanned)]

(***************************************************************************)
(* C1 (as stated; refuted): the raw scanner reads only offsets in          *)
(* [0, len) of the buffer it was given.                                    *)
(***************************************************************************)
C1_ReadsInsideBuffer == reads \subseteq 0..(len - 1)

C3_PlainFound ==
    (pc = "rawret" /\ ftag \in PlainTags /\ WellFormed(data)) =>
        /\ FirstWith(ftag, data) # NULL =>
              (ret = FirstWith(ftag, data) /\ RecordInside(data, ret))
        /\ ret # NULL => \E i \in 1..Len(Walk(data)) : Walk(data)[i] = ret

\* Found behind another record, ending exactly at the buffer's end.
C3_Witness ==
    /\ pc = "rawret" /\ ftag \in PlainTags /\ WellFormed(data)
    /\ ret # NULL /\ ret > 0
    /\ ret + RecordSize(data, ret) = len
    /\ data[1] # DHCP_PAD

(***************************************************************************)
(* C4: a search for a composite tag (E,S) returns what a search for S in   *)
(* the payload of the first in-bounds record with tag E returns; when S is *)
(* not in that payload the result is not-found; the nesting is at most one *)
(* level deep.                                                             *)
(***************************************************************************)
C4_Encapsulated ==
    /\ depth \in {0, 1}
    /\ (pc = "rawret" /\ ftag \in EncapTags) =>
          LET e == FirstWith(DHCP_ENCAPSULATOR(ftag), data)
          IN  IF e = NULL
              THEN ret = NULL /\ depth = 0
              ELSE /\ depth = 1
                   /\ encLen = data[e + 2]
                   /\ LET r == FirstWith(DHCP_ENCAPSULATED(ftag), PayloadAt(data, e))
                      IN  ret = IF r = NULL THEN NULL ELSE e + 2 + r

\* Not found in the first E, although a later record has tag E or S.
C4_Witness ==
    /\ pc = "rawret" /\ ftag \in EncapTags /\ depth = 1 /\ ret = NULL
    /\ \E i \in 1..Len(Walk(data)) :
          /\ Walk(data)[i] > FirstWith(DHCP_ENCAPSULATOR(ftag), data)
          /\ data[Walk(data)[i] + 1] \in {DHCP_ENCAPSULATOR(ftag), DHCP_ENCAPSULATED(ftag)}

\* The registered blocks, most recent first, in which t is to be found.
RegisteredHits(t) ==
    {i \in 1..Len(registered) : Expected(t, heap[registered[i]].data) # NULL}

MostRecentHit(t) ==
    IF RegisteredHits(t) = {} THEN NotFound
    ELSE LET i == CHOOSE i \in RegisteredHits(t) : \A j \in RegisteredHits(t) : i <= j
         IN  [block |-> registered[i], off |-> Expected(t, heap[registered[i]].data)]

(***************************************************************************)
(* C5: find_dhcp_option returns the option found in the most recently      *)
(* registered, still registered block in which the tag is to be found, and *)
(* not-found iff there is no such block (the callers keeping the contract: *)
(* every registered block exists).                                         *)
(***************************************************************************)
C5_MostRecentFirst ==
    (pc = "findret" /\ \A b \in Range(registered) : heap[b].live) =>
        findRet = MostRecentHit(ftag)

\* The most recent block holds the encapsulator without the sub-tag, or
\* the tag in a truncated record; the match comes from the older block.
C5_Witness ==
    /\ pc = "findret"
    /\ Len(registered) = 2
    /\ \A b \in Range(registered) : heap[b].live
    /\ Expected(ftag, heap[registered[1]].data) = NULL
    /\ \E i \in 1..heap[registered[1]].len :
          heap[registered[1]].data[i] \in {ftag, DHCP_ENCAPSULATOR(ftag)}
    /\ findRet.block = registered[2]

\* The two parts of C6: what a search may return, and what a step does to the list.
C6_ResultRegistered ==
    (pc = "findret" /\ findRet # NotFound) => findRet.block \in Range(registered)

C6_ListStep ==
    \A b \in Block :
        /\ (b \in Range(registered) /\ b \notin Range(registered')) =>
              option_blocks' = SelectSeq(option_blocks, LAMBDA e : e # b)
        /\ (b \notin Range(registered) /\ b \in Range(registered')) =>
              option_blocks' = <<b>> \o option_blocks

C7_FreshBlock ==
    \A b \in Block :
        fresh[b] # NULL =>
            /\ heap[b].live
            /\ heap[b].len = fresh[b]
            /\ Len(heap[b].data) = fresh[b]
            /\ fresh[b] > 0 => heap[b].data[1] = DHCP_END

C7_FreshScan ==
    (pc = "rawret" /\ fresh[Scanning] # NULL) =>
        /\ ret = NULL
        /\ len = fresh[Scanning]
        /\ reads = IF len > 0 THEN {0} ELSE {}

C7_FailedAlloc == (allocFailed' /\ ~allocFailed) => (heap' = heap /\ fresh' = fresh)

(***************************************************************************)
(* C7: a block returned by alloc_dhcp_options(capacity) has len = capacity *)
(* and, for capacity > 0, END as byte 0; a scan of it finds nothing and    *)
(* reads at most byte 0 (no byte for capacity 0), whatever the other bytes *)
(* hold; a failed allocation writes nothing.                               *)
(***************************************************************************)
C7_EmptyAlloc == [](C7_FreshBlock /\ C7_FreshScan) /\ [][C7_FailedAlloc]_vars

\* A new block whose uninitialised second byte is the tag searched for.
C7_Witness ==
    /\ pc = "rawret"
    /\ fresh[Scanning] = 2
    /\ data[2] = ftag

\* The big-endian value of a byte sequence, and its last n bytes.
RECURSIVE BigEndian(_)
BigEndian(bytes) ==
    IF bytes = <<>> THEN 0
    ELSE BigEndian(SubSeq(bytes, 1, Len(bytes) - 1)) * 256 + bytes[Len(bytes)]

LastBytes(bytes, n) ==
    IF Len(bytes) <= n THEN bytes ELSE SubSeq(bytes, Len(bytes) - n + 1, Len(bytes))

(***************************************************************************)
(* C8: dhcp_num_option returns 0 for NULL and for an empty payload, and    *)
(* otherwise the big-endian value of the payload reduced to the width of   *)
(* unsigned long, that is, of its last LongBytes bytes; it dereferences    *)
(* exactly the payload bytes (besides the option's len field).             *)
(***************************************************************************)
C8_NumOption ==
    pc = "numret" =>
        IF numOption = NULL
        THEN value = 0 /\ numReads = {}
        ELSE LET payload == PayloadAt(data, numOption)
             IN  /\ value = BigEndian(LastBytes(payload, LongBytes))
                 /\ payload = <<>> => value = 0
                 /\ payload = <<1, 2>> => value = 258
                 /\ numReads = {numOption + 2 + i : i \in 0..(Len(payload) - 1)}

\* A payload wider than unsigned long whose first byte is lost.
C8_Witness ==
    /\ pc = "numret" /\ numOption # NULL
    /\ Len(PayloadAt(data, numOption)) > LongBytes
    /\ PayloadAt(data, numOption)[1] = 255
    /\ value < 255 * (256 ^ (LongBytes - 1))

\* The safety part of C9: the counts that bound a search.
C9_Bounded ==
    /\ iters[1] <= len
    /\ iters[2] <= encLen
    /\ depth = 1 => encLen <= len
    /\ pc = "raw" =>
          /\ remaining >= 0
          /\ iters[depth + 1] + remaining <= (IF depth = 0 THEN len ELSE encLen)
    /\ Len(scanned) <= Len(option_blocks)
    /\ scanned = SubSeq(option_blocks, 1, Len(scanned))
    /\ Cardinality(Range(scanned)) = Len(scanned)
    /\ pc \in {"find", "raw", "rawret", "findret"} =>
          cursor \in (IF pc = "find" THEN Len(scanned) + 1 ELSE Len(scanned))
                     ..(Len(scanned) + 1)

(***************************************************************************)
(* C9: every search terminates.  Each loop body entered consumes at least  *)
(* one byte of the remaining count, so the outermost scan enters at most   *)
(* len bodies and the nested scan at most the encapsulator's len; and      *)
(* find_dhcp_option scans the registered blocks in list order, each once.  *)
(***************************************************************************)
C9_Terminates == [](C9_Bounded) /\ ((pc = "find") ~> (pc = "findret"))

\* Every block scanned, the last one PAD by PAD to its very end.
C9_Witness ==
    /\ pc = "findret"
    /\ Len(scanned) = NBlocks
    /\ iters[1] >= 3

\* What one step may change (C10).
C10_Step ==
    /\ (heap' # heap \/ fresh' # fresh) => option_blocks' = option_blocks
    /\ option_blocks' # option_blocks => (heap' = heap /\ fresh' = fresh)
    /\ \A b \in Block :
          (heap[b].live /\ ~heap'[b].live /\ b \in Range(option_blocks))
              => b \in Range(option_blocks')

(***************************************************************************)
(* C10: no step changes both the list and a block: allocating and freeing  *)
(* leave the list as it is, registering and unregistering leave every      *)
(* block's bytes, len and existence as they are.  So a block freed while   *)
(* registered stays on the list and is scanned by the next search.         *)
(***************************************************************************)
C10_Independent == [][C10_Step]_vars

\* The scanner at work on a block that was freed while registered.
C10_Witness == pc = "raw" /\ ~heap[Scanning].live

====
